---- MODULE Spec2Model ----
(***************************************************************************)
(* Model of altair/utils/mimebundle.py: spec_to_mimebundle, its helper     *)
(* _spec_to_mimebundle_with_engine and the engine resolver                 *)
(* _validate_normalize_engine.                                             *)
(*                                                                         *)
(* Python strings whose characters matter (version strings, the engine     *)
(* option) are sequences of one-character strings wrapped in a record that *)
(* also represents None.  mode and format are only compared for equality   *)
(* and are plain strings, with NoneMode standing for the default None.     *)
(***************************************************************************)
EXTENDS Integers, Sequences, FiniteSets, TLC

VARIABLES
    vlcInstalled,      \* "import vl_convert" succeeds in this process
    saverInstalled,    \* "import altair_saver" succeeds in this process
    debug,             \* __debug__: assert statements are executed (no -O)
    transformer,       \* state of the process-wide data_transformers registry
    stack,             \* registry states saved by the open context managers
    pc,                \* where the current call is
    args,              \* the arguments of the current call
    branch,            \* the branch of spec_to_mimebundle the call took
    assertion,         \* outcome of evaluating the condition of line 66
    resolved,          \* outcome of _validate_normalize_engine, once it ran
    pre,               \* registry state when the call started
    result             \* what the call returned or raised

vars == <<vlcInstalled, saverInstalled, debug, transformer, stack, pc, args,
          branch, assertion, resolved, pre, result>>

----------------------------------------------------------------------------
(* Python values *)

None == [isNone |-> TRUE, s |-> <<>>]
Str(chars) == [isNone |-> FALSE, s |-> chars]

NoneMode == "<None>"

UpperCase == <<"A","B","C","D","E","F","G","H","I","J","K","L","M",
               "N","O","P","Q","R","S","T","U","V","W","X","Y","Z">>
LowerCase == <<"a","b","c","d","e","f","g","h","i","j","k","l","m",
               "n","o","p","q","r","s","t","u","v","w","x","y","z">>

\* str.lower() on one character
LowerChar(c) ==
    IF \E i \in DOMAIN UpperCase : UpperCase[i] = c
    THEN LowerCase[CHOOSE i \in DOMAIN UpperCase : UpperCase[i] = c]
    ELSE c

\* str.lower()
Lower(chars) == [i \in DOMAIN chars |-> LowerChar(chars[i])]

\* str.replace(ch, "") for a one-character ch
RECURSIVE Remove(_, _)
Remove(chars, ch) ==
    IF chars = <<>> THEN <<>>
    ELSE IF Head(chars) = ch THEN Remove(Tail(chars), ch)
    ELSE <<Head(chars)>> \o Remove(Tail(chars), ch)

VLCONVERT == <<"v","l","c","o","n","v","e","r","t">>
ALTAIRSAVER == <<"a","l","t","a","i","r","s","a","v","e","r">>

----------------------------------------------------------------------------
(* Inputs *)

MaxSaverEntries == 2

Modes == {"vega", "vega-lite", NoneMode, "Vega"}
Formats == {"html", "json", "png", "svg", "pdf", "vega", "vega-lite", "bmp"}
Specs == {"specA", "specB"}
Versions == {None, Str(<<>>), Str(<<"5", ".", "2", ".", "0">>)}
EmbedVersions == {None, Str(<<"6">>)}
Engines ==
    {None,
     Str(<<"v","l","-","c","o","n","v","e","r","t">>),
     Str(<<"V","L","_","C","o","n","v","e","r","t">>),
     Str(<<"a","l","t","a","i","r","_","s","a","v","e","r">>),
     Str(<<"A","l","t","a","i","r","-","S","a","v","e","r">>),
     Str(<<"v","l"," ","c","o","n","v","e","r","t">>),
     Str(<<"s","e","l","e","n","i","u","m">>),
     Str(<<"-","_">>),
     Str(<<>>)}

Arguments ==
    [spec : Specs, format : Formats, mode : Modes, vega_version : Versions,
     vegaembed_version : EmbedVersions, vegalite_version : Versions,
     engine : Engines]

NoArgs ==
    [spec |-> "specA", format |-> "json", mode |-> NoneMode,
     vega_version |-> None, vegaembed_version |-> None,
     vegalite_version |-> None, engine |-> None]

TransformerStates ==
    {[active |-> "default", max_rows |-> "unset"],
     [active |-> "default", max_rows |-> "None"],
     [active |-> "json", max_rows |-> "100"]}

----------------------------------------------------------------------------
(* Results *)

NoResult == [kind |-> "none", exc |-> "", msg |-> "", bundle |-> {}]
Raise(exc, msg) == [kind |-> "raise", exc |-> exc, msg |-> msg, bundle |-> {}]
Return(bundle) == [kind |-> "return", exc |-> "", msg |-> "", bundle |-> bundle]

Payload(kind, spec) == [kind |-> kind, of |-> spec]
Entry(key, payload) == <<key, payload>>

NotResolved == [ran |-> FALSE, raised |-> FALSE, msg |-> "", engine |-> None]
Resolved(engine) == [ran |-> TRUE, raised |-> FALSE, msg |-> "", engine |-> engine]
ResolveFails(msg) == [ran |-> TRUE, raised |-> TRUE, msg |-> msg, engine |-> None]

----------------------------------------------------------------------------
(* The data_transformers registry (altair.vegalite.v5.data), as far as     *)
(* line 110 uses it: two context managers that change the registry state   *)
(* on entry and put the saved state back on exit.                          *)

\* data_transformers.enable(name): the named transformer, no options
Enable(t, name) == [active |-> name, max_rows |-> "unset"]

\* data_transformers.disable_max_rows(): max_rows=None for the default one
DisableMaxRows(t) ==
    IF t.active = "default" THEN [t EXCEPT !.max_rows = "None"] ELSE t

----------------------------------------------------------------------------
(* _validate_normalize_engine *)

\* Normalize without .replace("_", "")
Normalize_KeepsUnderscore(engine) ==
    IF engine.isNone THEN None
    ELSE Str(Remove(Lower(engine.s), "-"))

\* lines 161-163
Normalize(engine) ==
    IF engine.isNone THEN None
    ELSE Str(Remove(Remove(Lower(engine.s), "-"), "_"))

\* the resolver without the pdf check of lines 171-175
ValidateNormalizeEngine_PdfOverride(engine, format, vlc, saver) ==
    LET normalized_engine == Normalize(engine) IN
    IF normalized_engine = Str(VLCONVERT) THEN
        IF ~vlc THEN ResolveFails("requires vl-convert-python")
        ELSE Resolved(normalized_engine)
    ELSE IF normalized_engine = Str(ALTAIRSAVER) THEN
        IF ~saver THEN ResolveFails("requires altair_saver")
        ELSE Resolved(normalized_engine)
    ELSE IF normalized_engine = None THEN
        IF vlc /\ format # "pdf" THEN Resolved(Str(VLCONVERT))
        ELSE IF saver THEN Resolved(Str(ALTAIRSAVER))
        ELSE IF format = "pdf" THEN ResolveFails("format requires altair_saver")
        ELSE ResolveFails("format requires vl-convert-python or altair_saver")
    ELSE ResolveFails("Invalid conversion engine")

\* the resolver with line 182 reading "if vlc is not None:"
ValidateNormalizeEngine_PdfDefault(engine, format, vlc, saver) ==
    LET normalized_engine == Normalize(engine) IN
    IF normalized_engine = Str(VLCONVERT) THEN
        IF ~vlc THEN ResolveFails("requires vl-convert-python")
        ELSE IF format = "pdf" THEN ResolveFails("vl-convert does not support format")
        ELSE Resolved(normalized_engine)
    ELSE IF normalized_engine = Str(ALTAIRSAVER) THEN
        IF ~saver THEN ResolveFails("requires altair_saver")
        ELSE Resolved(normalized_engine)
    ELSE IF normalized_engine = None THEN
        IF vlc THEN Resolved(Str(VLCONVERT))
        ELSE IF saver THEN Resolved(Str(ALTAIRSAVER))
        ELSE IF format = "pdf" THEN ResolveFails("format requires altair_saver")
        ELSE ResolveFails("format requires vl-convert-python or altair_saver")
    ELSE ResolveFails("Invalid conversion engine")

\* lines 140-203; vlc and saver say whether the two imports succeeded
ValidateNormalizeEngine(engine, format, vlc, saver) ==
    LET normalized_engine == Normalize(engine) IN
    IF normalized_engine = Str(VLCONVERT) THEN
        IF ~vlc THEN ResolveFails("requires vl-convert-python")
        ELSE IF format = "pdf" THEN ResolveFails("vl-convert does not support format")
        ELSE Resolved(normalized_engine)
    ELSE IF normalized_engine = Str(ALTAIRSAVER) THEN
        IF ~saver THEN ResolveFails("requires altair_saver")
        ELSE Resolved(normalized_engine)
    ELSE IF normalized_engine = None THEN
        IF vlc /\ format # "pdf" THEN Resolved(Str(VLCONVERT))
        ELSE IF saver THEN Resolved(Str(ALTAIRSAVER))
        ELSE IF format = "pdf" THEN ResolveFails("format requires altair_saver")
        ELSE ResolveFails("format requires vl-convert-python or altair_saver")
    ELSE ResolveFails("Invalid conversion engine")

----------------------------------------------------------------------------
(* spec_to_mimebundle *)

\* line 46 reading "if mode is None:"
ModeOk_NotNone(mode) == mode # NoneMode

\* line 46
ModeOk(mode) == mode \in {"vega", "vega-lite"}

\* line 49 without the passthrough
VegaPassthrough_Never(mode, format) == FALSE

\* line 49
VegaPassthrough(mode, format) == mode = "vega" /\ format = "vega"

\* line 53
NeedsEngine(format) == format \in {"png", "svg", "pdf", "vega"}

\* lines 50-52 and 69-71: the key is built from version[0]
VersionedBundle(prefix, version, missing, spec) ==
    IF version.isNone THEN Raise("ValueError", missing)
    ELSE IF Len(version.s) = 0 THEN Raise("IndexError", "string index out of range")
    ELSE Return({Entry(<<prefix, version.s[1], "+json">>, Payload("spec", spec))})

\* lines 65-71
VegaLiteBranch(a, dbg) ==
    IF dbg /\ a.mode # "vega-lite" THEN Raise("AssertionError", "")
    ELSE IF a.mode = "vega" THEN
        Raise("ValueError", "Cannot convert a vega spec to vegalite")
    ELSE VersionedBundle("application/vnd.vegalite.v", a.vegalite_version,
                         "Must specify vegalite_version", a.spec)

\* line 73 with the MIME type of the html branch
JsonBundle_Html(spec) == {Entry(<<"text/html">>, Payload("spec", spec))}

\* line 73
JsonBundle(spec) == {Entry(<<"application/json">>, Payload("spec", spec))}

\* lines 46-77, up to the first call of a helper or collaborator
Dispatch(a, dbg) ==
    IF ~ModeOk(a.mode) THEN
        [branch |-> "mode", pc |-> "done",
         result |-> Raise("ValueError", "mode must be either 'vega' or 'vega-lite'")]
    ELSE IF VegaPassthrough(a.mode, a.format) THEN
        [branch |-> "vega", pc |-> "done",
         result |-> VersionedBundle("application/vnd.vega.v", a.vega_version,
                                    "Must specify vega_version", a.spec)]
    ELSE IF NeedsEngine(a.format) THEN
        [branch |-> "engine", pc |-> "engine", result |-> NoResult]
    ELSE IF a.format = "html" THEN
        [branch |-> "html", pc |-> "html", result |-> NoResult]
    ELSE IF a.format = "vega-lite" THEN
        [branch |-> "vega-lite", pc |-> "done", result |-> VegaLiteBranch(a, dbg)]
    ELSE IF a.format = "json" THEN
        [branch |-> "json", pc |-> "done", result |-> Return(JsonBundle(a.spec))]
    ELSE
        [branch |-> "format", pc |-> "done",
         result |-> Raise("ValueError", "format must be one of")]

\* the value of the condition of the assert statement of line 66
AssertionAt(a, br) ==
    IF br # "vega-lite" THEN "unreached"
    ELSE IF a.mode = "vega-lite" THEN "true" ELSE "false"

SpecToMimebundle(a) ==
    /\ LET d == Dispatch(a, debug) IN
        /\ args' = a
        /\ pre' = transformer
        /\ branch' = d.branch
        /\ pc' = d.pc
        /\ result' = d.result
        /\ assertion' = AssertionAt(a, d.branch)
    /\ UNCHANGED <<vlcInstalled, saverInstalled, debug, transformer, stack, resolved>>

\* a caller calls spec_to_mimebundle with some arguments
Call ==
    /\ pc = "idle"
    /\ \E a \in Arguments : SpecToMimebundle(a)

----------------------------------------------------------------------------
(* spec_to_html (altair.utils.html) called at line 56 *)

\* line 64
HtmlReturns ==
    /\ pc = "html"
    /\ result' = Return({Entry(<<"text/html">>, Payload("html", args.spec))})
    /\ pc' = "done"
    /\ UNCHANGED <<vlcInstalled, saverInstalled, debug, transformer, stack, args,
                   branch, assertion, resolved, pre>>

\* lines 56-63: an exception of spec_to_html propagates
HtmlRaises ==
    /\ pc = "html"
    /\ result' = Raise("HtmlError", "spec_to_html")
    /\ pc' = "done"
    /\ UNCHANGED <<vlcInstalled, saverInstalled, debug, transformer, stack, args,
                   branch, assertion, resolved, pre>>

----------------------------------------------------------------------------
(* _spec_to_mimebundle_with_engine *)

\* lines 111-123
VlcFormats == {"vega", "svg", "png"}

\* the png branch adding its entry to the svg one
VlcBundle_Both(format, spec) ==
    IF format = "vega" THEN
        {Entry(<<"application/vnd.vega.v5+json">>, Payload("vg", spec))}
    ELSE IF format = "svg" THEN
        {Entry(<<"image/svg+xml">>, Payload("svg", spec))}
    ELSE
        {Entry(<<"image/svg+xml">>, Payload("svg", spec)),
         Entry(<<"image/png">>, Payload("png", spec))}

\* lines 113, 116, 123
VlcBundle(format, spec) ==
    IF format = "vega" THEN
        {Entry(<<"application/vnd.vega.v5+json">>, Payload("vg", spec))}
    ELSE IF format = "svg" THEN
        {Entry(<<"image/svg+xml">>, Payload("svg", spec))}
    ELSE
        {Entry(<<"image/png">>, Payload("png", spec))}

\* lines 98-137, up to the call of the converter or of altair_saver.render
SpecToMimebundleWithEngine ==
    /\ pc = "engine"
    /\ LET r == ValidateNormalizeEngine(args.engine, args.format,
                                        vlcInstalled, saverInstalled) IN
        /\ resolved' = r
        /\ IF r.raised THEN
               /\ result' = Raise("ValueError", r.msg)
               /\ pc' = "done"
               /\ UNCHANGED <<transformer, stack>>
           ELSE IF r.engine = Str(VLCONVERT) THEN
               IF args.format \in VlcFormats THEN
                   /\ stack' = <<transformer, Enable(transformer, "default")>>
                   /\ transformer' = DisableMaxRows(Enable(transformer, "default"))
                   /\ pc' = "vlc"
                   /\ UNCHANGED result
               ELSE
                   \* the with block is entered and left by the raise
                   /\ result' = Raise("ValueError", "Unexpected format")
                   /\ pc' = "done"
                   /\ UNCHANGED <<transformer, stack>>
           ELSE IF r.engine = Str(ALTAIRSAVER) THEN
               /\ pc' = "saver"
               /\ UNCHANGED <<result, transformer, stack>>
           ELSE
               /\ result' = Raise("ValueError", "Unexpected normalized_engine")
               /\ pc' = "done"
               /\ UNCHANGED <<transformer, stack>>
    /\ UNCHANGED <<vlcInstalled, saverInstalled, debug, args, branch, assertion, pre>>

\* lines 110-123: the converter returns, the with block is left by return
VlcReturns ==
    /\ pc = "vlc"
    /\ result' = Return(VlcBundle(args.format, args.spec))
    /\ transformer' = Head(stack)
    /\ stack' = <<>>
    /\ pc' = "done"
    /\ UNCHANGED <<vlcInstalled, saverInstalled, debug, args, branch, assertion,
                   resolved, pre>>

\* the override undone by a statement after the converter call, not by "with"
VlcRaises_NoRestore ==
    /\ pc = "vlc"
    /\ result' = Raise("ConverterError", "vl_convert")
    /\ stack' = <<>>
    /\ pc' = "done"
    /\ UNCHANGED <<vlcInstalled, saverInstalled, debug, transformer, args, branch,
                   assertion, resolved, pre>>

\* lines 110-123: the converter raises, the with block is left by the exception
VlcRaises ==
    /\ pc = "vlc"
    /\ result' = Raise("ConverterError", "vl_convert")
    /\ transformer' = Head(stack)
    /\ stack' = <<>>
    /\ pc' = "done"
    /\ UNCHANGED <<vlcInstalled, saverInstalled, debug, args, branch, assertion,
                   resolved, pre>>

\* what altair_saver.render may return: a mapping with any number of entries
SaverBundle(n, spec) ==
    {Entry([j \in 1..i |-> "saver"], Payload("saver", spec)) : i \in 1..n}

\* line 131: the result of altair_saver.render is returned unmodified
SaverReturns(n) ==
    /\ pc = "saver"
    /\ result' = Return(SaverBundle(n, args.spec))
    /\ pc' = "done"
    /\ UNCHANGED <<vlcInstalled, saverInstalled, debug, transformer, stack, args,
                   branch, assertion, resolved, pre>>

\* line 131: an exception of altair_saver.render propagates
SaverRaises ==
    /\ pc = "saver"
    /\ result' = Raise("SaverError", "altair_saver")
    /\ pc' = "done"
    /\ UNCHANGED <<vlcInstalled, saverInstalled, debug, transformer, stack, args,
                   branch, assertion, resolved, pre>>

----------------------------------------------------------------------------
(* The caller takes the outcome; the process is ready for the next call. *)

Finish ==
    /\ pc = "done"
    /\ pc' = "idle"
    /\ args' = NoArgs
    /\ branch' = "none"
    /\ assertion' = "unreached"
    /\ resolved' = NotResolved
    /\ result' = NoResult
    /\ pre' = transformer
    /\ UNCHANGED <<vlcInstalled, saverInstalled, debug, transformer, stack>>

Init ==
    /\ vlcInstalled \in BOOLEAN
    /\ saverInstalled \in BOOLEAN
    /\ debug \in BOOLEAN
    /\ transformer \in TransformerStates
    /\ stack = <<>>
    /\ pc = "idle"
    /\ args = NoArgs
    /\ branch = "none"
    /\ assertion = "unreached"
    /\ resolved = NotResolved
    /\ pre = transformer
    /\ result = NoResult

Next ==
    \/ Call
    \/ SpecToMimebundleWithEngine
    \/ VlcReturns
    \/ VlcRaises
    \/ \E n \in 0..MaxSaverEntries : SaverReturns(n)
    \/ SaverRaises
    \/ HtmlReturns
    \/ HtmlRaises
    \/ Finish

Spec == Init /\ [][Next]_vars

TypeOK ==
    /\ pc \in {"idle", "engine", "vlc", "saver", "html", "done"}
    /\ branch \in {"none", "mode", "vega", "engine", "html", "vega-lite", "json", "format"}
    /\ assertion \in {"unreached", "true", "false"}
    /\ result.kind \in {"none", "return", "raise"}

----------------------------------------------------------------------------
(* Properties *)

IsValueError(r) == r.kind = "raise" /\ r.exc = "ValueError"

VlConvertDash == Str(<<"v","l","-","c","o","n","v","e","r","t">>)
VlConvertUpper == Str(<<"V","L","_","C","o","n","v","e","r","t">>)
Selenium == Str(<<"s","e","l","e","n","i","u","m">>)
Version520 == Str(<<"5", ".", "2", ".", "0">>)

\* C1: a call whose mode is not exactly "vega" or "vega-lite" raises
\* ValueError for every format, version and option, and does so at once:
\* no engine was resolved, no html generated, the registry not touched.
C1_InvalidModeFails ==
    (pc # "idle" /\ args.mode \notin {"vega", "vega-lite"}) =>
        /\ pc = "done"
        /\ branch = "mode"
        /\ IsValueError(result)
        /\ ~resolved.ran
        /\ transformer = pre
        /\ stack = <<>>

C1_Witness ==
    /\ pc = "done"
    /\ args.mode = "Vega"
    /\ args.format = "png"
    /\ args.engine = VlConvertDash
    /\ vlcInstalled
    /\ IsValueError(result)

\* C2 as stated: a call with format "json" returns {"application/json": spec}
\* for any mode, versions and options, and does not fail.
C2_JsonUnconditional ==
    (pc = "done" /\ args.format = "json") =>
        /\ result.kind = "return"
        /\ result.bundle = {<< <<"application/json">>, [kind |-> "spec", of |-> args.spec] >>}

\* C2 amended: a call with format "json" and mode "vega" or "vega-lite"
\* returns {"application/json": spec} for any versions and options; with any
\* other mode it raises ValueError.
C2_JsonValidMode ==
    (pc # "idle" /\ args.format = "json") =>
        /\ pc = "done"
        /\ args.mode \in {"vega", "vega-lite"} =>
               /\ result.kind = "return"
               /\ result.bundle =
                      {<< <<"application/json">>, [kind |-> "spec", of |-> args.spec] >>}
        /\ args.mode \notin {"vega", "vega-lite"} => IsValueError(result)

C2_Witness ==
    /\ pc = "done"
    /\ args.format = "json"
    /\ args.mode = "vega"
    /\ args.vega_version = None
    /\ args.engine = Selenium
    /\ result.kind = "return"

\* C3 as stated: in the passthrough branches (mode = format = "vega" with
\* vega_version, mode = format = "vega-lite" with vegalite_version) a missing
\* or empty version raises ValueError, nothing else is ever raised, and a
\* non-empty version gives a one-key bundle carrying its first character.
C3_VersionRequired ==
    LET version == IF args.mode = "vega" THEN args.vega_version
                   ELSE args.vegalite_version
    IN  (/\ pc = "done"
         /\ args.mode \in {"vega", "vega-lite"}
         /\ args.format = args.mode) =>
            /\ (version.isNone \/ version.s = <<>>) => IsValueError(result)
            /\ result.kind = "raise" => result.exc = "ValueError"
            /\ (~version.isNone /\ version.s # <<>>) =>
                   /\ result.kind = "return"
                   /\ Cardinality(result.bundle) = 1
                   /\ \A e \in result.bundle : e[1][2] = version.s[1]

\* str.lower() followed by dropping every "-" and "_"
NotSeparator(c) == c \notin {"-", "_"}
Fold(engine) ==
    IF engine.isNone THEN None ELSE Str(SelectSeq(Lower(engine.s), NotSeparator))

\* the resolution table of the engine resolver
ResolutionTable(override, vlc, saver, format) ==
    IF override = Str(VLCONVERT) THEN
        IF ~vlc THEN "fails" ELSE IF format = "pdf" THEN "fails" ELSE "vlconvert"
    ELSE IF override = Str(ALTAIRSAVER) THEN
        IF ~saver THEN "fails" ELSE "altairsaver"
    ELSE
        IF vlc /\ format # "pdf" THEN "vlconvert"
        ELSE IF saver THEN "altairsaver"
        ELSE "fails"

ResolutionOutcome(r) ==
    IF r.raised THEN "fails"
    ELSE IF r.engine = Str(VLCONVERT) THEN "vlconvert"
    ELSE IF r.engine = Str(ALTAIRSAVER) THEN "altairsaver"
    ELSE "other"

\* C4: for an override that normalizes to vlconvert, altairsaver or is absent,
\* the resolver's outcome is the one of the resolution table for the installed
\* engines and the format; a failure is a ValueError and yields no engine id.
C4_ResolutionTable ==
    (resolved.ran /\ Fold(args.engine) \in {Str(VLCONVERT), Str(ALTAIRSAVER), None}) =>
        /\ args.format \in {"png", "svg", "pdf", "vega"}
        /\ ResolutionOutcome(resolved) =
               ResolutionTable(Fold(args.engine), vlcInstalled, saverInstalled, args.format)
        /\ resolved.raised =>
               /\ pc = "done"
               /\ IsValueError(result)
               /\ resolved.engine = None

C4_Witness ==
    /\ resolved.ran
    /\ args.engine = VlConvertDash
    /\ args.format = "pdf"
    /\ vlcInstalled
    /\ saverInstalled
    /\ resolved.raised
    /\ IsValueError(result)

\* C5: the registry state is the same after a call as before it, on every
\* exit path, and differs from it only while the vl-convert converter runs,
\* when it is the default transformer with max_rows disabled.
C5_TransformerRestored ==
    /\ pc # "vlc" => (transformer = pre /\ stack = <<>>)
    /\ pc = "vlc" =>
           /\ transformer = [active |-> "default", max_rows |-> "None"]
           /\ Head(stack) = pre

C5_Witness ==
    /\ pc = "done"
    /\ result.kind = "raise"
    /\ result.exc = "ConverterError"
    /\ pre = [active |-> "json", max_rows |-> "100"]
    /\ transformer = pre

\* C6 as stated: every returned mimebundle has exactly one entry, the one
\* returned on the altair_saver path included.
C6_OneEntry ==
    (pc = "done" /\ result.kind = "return") => Cardinality(result.bundle) = 1

\* C6 amended: every mimebundle that the module builds itself (the json, vega
\* and vega-lite passthroughs, html, vl-convert for vega, svg and png) has
\* exactly one entry; only the altair_saver path, which returns what
\* altair_saver.render returned, is not bound by it.
C6_OneEntryBuiltHere ==
    (pc = "done" /\ result.kind = "return" /\ resolved.engine # Str(ALTAIRSAVER)) =>
        Cardinality(result.bundle) = 1

C6_Witness ==
    /\ pc = "done"
    /\ result.kind = "return"
    /\ resolved.engine = Str(VLCONVERT)
    /\ args.format = "png"
    /\ Cardinality(result.bundle) = 1

\* C7: two engine strings that are equal after lowercasing and dropping "-"
\* and "_" resolve alike for every format and installation, and a string
\* whose folded form is neither vlconvert nor altairsaver raises ValueError.
C7_EngineNameFolding ==
    (resolved.ran /\ ~args.engine.isNone) =>
        /\ \A other \in Engines :
               (~other.isNone /\ Fold(other) = Fold(args.engine)) =>
                   ValidateNormalizeEngine(other, args.format, vlcInstalled,
                                           saverInstalled) = resolved
        /\ Fold(args.engine) \notin {Str(VLCONVERT), Str(ALTAIRSAVER)} =>
               /\ resolved.raised
               /\ pc = "done"
               /\ IsValueError(result)

C7_Witness ==
    /\ resolved.ran
    /\ args.engine = VlConvertUpper
    /\ args.format = "svg"
    /\ ~resolved.raised
    /\ resolved.engine = Str(VLCONVERT)
    /\ pc = "vlc"

\* C8 as stated: when the format == "vega-lite" branch is reached the mode is
\* "vega-lite", so the condition of the assertion is never false, and nothing
\* but ValueError is raised in that branch.
C8_AssertionNeverFalse ==
    /\ assertion # "false"
    /\ branch = "vega-lite" =>
           /\ args.mode = "vega-lite"
           /\ result.kind = "raise" => result.exc = "ValueError"

\* C9: the two defensive branches are never taken: the converter is entered
\* only for vega, svg or png, a successful resolution yields vlconvert or
\* altairsaver, and neither "Unexpected" error is ever raised.
C9_DefensiveUnreachable ==
    /\ result.msg \notin {"Unexpected format", "Unexpected normalized_engine"}
    /\ pc = "vlc" => args.format \in {"vega", "svg", "png"}
    /\ (resolved.ran /\ ~resolved.raised) =>
           /\ resolved.engine \in {Str(VLCONVERT), Str(ALTAIRSAVER)}
           /\ resolved.engine = Str(VLCONVERT) => args.format # "pdf"

C9_Witness ==
    /\ pc = "saver"
    /\ args.format = "pdf"
    /\ args.engine = None
    /\ vlcInstalled
    /\ resolved.engine = Str(ALTAIRSAVER)

\* C10: the engine helper is called with format "vega" only for mode
\* "vega-lite"; with mode "vega" and format "vega" the call ends without any
\* engine resolution, with an outcome fixed by vega_version (and spec) alone.
C10_VegaEngineOnlyForVegaLite ==
    /\ (branch = "engine" /\ args.format = "vega") => args.mode = "vega-lite"
    /\ (pc # "idle" /\ args.mode = "vega" /\ args.format = "vega") =>
           /\ pc = "done"
           /\ ~resolved.ran
           /\ branch = "vega"
           /\ result = VersionedBundle("application/vnd.vega.v", args.vega_version,
                                       "Must specify vega_version", args.spec)

C10_Witness ==
    /\ pc = "done"
    /\ args.mode = "vega"
    /\ args.format = "vega"
    /\ args.engine = Selenium
    /\ ~vlcInstalled
    /\ ~saverInstalled
    /\ args.vega_version = Version520
    /\ result.kind = "return"

====
